---- MODULE Spec2Model ----
(***************************************************************************)
(* Model of backend/src/utils/IpUtils.ts: the IPv4 / IPv6 validators, the  *)
(* IPv6 expansion and the three reverse operations.                        *)
(*                                                                         *)
(* A JavaScript string is a sequence of one-character strings.  A regular  *)
(* expression is a tree of records, written node for node as in the source *)
(* pattern, and RegExp.prototype.test is membership in its language.       *)
(***************************************************************************)
EXTENDS Integers, Sequences, FiniteSets, TLC

(* one call of an IpUtils function: its arguments and what it returns *)
VARIABLES ip, req, op, result, expandedIP, twice

(* callers sharing the module: the state a pattern object could retain *)
VARIABLES lastIndex, calls

(* the HTTP service: requests in progress, the ReversedIP table, the       *)
(* arguments IPService.reverseAndStore was called with                     *)
VARIABLES requests, store, svcArgs

coreVars == <<ip, req, op, result, expandedIP, twice>>

callVars == <<lastIndex, calls>>

httpVars == <<requests, store, svcArgs>>

(* one response object per connection, with the timer of timeoutHandler *)
VARIABLES conns

srvVars == <<conns>>

(* the server process from the first signal to its exit *)
VARIABLES signals, server, open, ended, callbacks, timers, db, exitCode, cause

shutVars == <<signals, server, open, ended, callbacks, timers, db, exitCode, cause>>

(* the IPHistory component: its search state, the debounce timers that   *)
(* are armed, the search requests it has issued                           *)
VARIABLES searchQuery, searchResults, isSearching, debounce, issued

histVars == <<searchQuery, searchResults, isSearching, debounce, issued>>

(* the IPReverser component: its useState values and the request it      *)
(* waits for                                                              *)
VARIABLES ipAddress, formResult, loading, error, pending

formVars == <<ipAddress, formResult, loading, error, pending>>

(* one request to a paged endpoint: its query string and how far its    *)
(* handler got                                                            *)
VARIABLES reqQuery, handled

pageVars == <<reqQuery, handled>>

restVars == <<srvVars, shutVars, histVars, formVars, pageVars>>

vars == <<coreVars, callVars, httpVars, restVars>>

-----------------------------------------------------------------------------
(* Character classes used by the two patterns.                             *)

Digit == {"0", "1", "2", "3", "4", "5", "6", "7", "8", "9"}

HexDigit == Digit \cup {"a", "b", "c", "d", "e", "f", "A", "B", "C", "D", "E", "F"}

AlNum ==
  Digit \cup
  {"a", "b", "c", "d", "e", "f", "g", "h", "i", "j", "k", "l", "m",
   "n", "o", "p", "q", "r", "s", "t", "u", "v", "w", "x", "y", "z",
   "A", "B", "C", "D", "E", "F", "G", "H", "I", "J", "K", "L", "M",
   "N", "O", "P", "Q", "R", "S", "T", "U", "V", "W", "X", "Y", "Z"}

-----------------------------------------------------------------------------
(* Regular expression trees.                                               *)

Cls(cs) == [t |-> "cls", cs |-> cs]

Lit(c) == Cls({c})

Cat(rs) == [t |-> "cat", rs |-> rs]

Alt(rs) == [t |-> "alt", rs |-> rs]

Rep(r, lo, hi) == [t |-> "rep", r |-> r, lo |-> lo, hi |-> hi]

Opt(r) == Rep(r, 0, 1)

Inf == -1

(* Ends(r, s, P): the positions at which a match of r can end when it      *)
(* starts at one of the positions P of s (position p is before s[p]).      *)
RECURSIVE Ends(_, _, _)
RECURSIVE EndsCat(_, _, _, _)
RECURSIVE EndsRep(_, _, _, _, _)

Ends(r, s, P) ==
  IF P = {} THEN {}
  ELSE CASE r.t = "cls" -> {p + 1 : p \in {q \in P : q <= Len(s) /\ s[q] \in r.cs}}
         [] r.t = "cat" -> EndsCat(r.rs, 1, s, P)
         [] r.t = "alt" -> UNION {Ends(r.rs[i], s, P) : i \in DOMAIN r.rs}
         [] r.t = "rep" -> EndsRep(r, 0, s, P, {})

EndsCat(rs, i, s, P) ==
  IF i > Len(rs) THEN P ELSE EndsCat(rs, i + 1, s, Ends(rs[i], s, P))

(* k repetitions done, P the positions reached by exactly k repetitions,   *)
(* acc the positions already accepted.                                     *)
EndsRep(r, k, s, P, acc) ==
  LET acc2 == IF k >= r.lo THEN acc \cup P ELSE acc
  IN  IF P = {} \/ (r.hi # Inf /\ k >= r.hi) \/ (k >= r.lo /\ P \subseteq acc)
        THEN acc2
        ELSE EndsRep(r, k + 1, s, Ends(r.r, s, P), acc2)

(* /^...$/.test(s) without flags: the whole of s must match.               *)
Test(r, s) == (Len(s) + 1) \in Ends(r, s, {1})

-----------------------------------------------------------------------------
(* isValidIPv4                                                             *)

D04 == {"0", "1", "2", "3", "4"}

D05 == {"0", "1", "2", "3", "4", "5"}

(* the octet pattern with 25[0-9] for 25[0-5] *)
octetLoose ==
  Alt(<< Cat(<<Lit("2"), Lit("5"), Cls(Digit)>>),
         Cat(<<Lit("2"), Cls(D04), Cls(Digit)>>),
         Cat(<<Opt(Cls({"0", "1"})), Cls(Digit), Opt(Cls(Digit))>>) >>)

(* (25[0-5]|2[0-4][0-9]|[01]?[0-9][0-9]?) *)
octet ==
  Alt(<< Cat(<<Lit("2"), Lit("5"), Cls(D05)>>),
         Cat(<<Lit("2"), Cls(D04), Cls(Digit)>>),
         Cat(<<Opt(Cls({"0", "1"})), Cls(Digit), Opt(Cls(Digit))>>) >>)

ipv4Regex == Cat(<<octet, Lit("."), octet, Lit("."), octet, Lit("."), octet>>)

isValidIPv4(s) == Test(ipv4Regex, s)

-----------------------------------------------------------------------------
(* isValidIPv6                                                             *)

(* [0-9a-fA-F]{1,4} *)
h16 == Rep(Cls(HexDigit), 1, 4)

(* the repetition with its upper bound two too high *)
h16ColonLoose(lo, hi) == Rep(Cat(<<h16, Lit(":")>>), lo, hi + 2)

(* ([0-9a-fA-F]{1,4}:){lo,hi} *)
h16Colon(lo, hi) == Rep(Cat(<<h16, Lit(":")>>), lo, hi)

(* (:[0-9a-fA-F]{1,4}){lo,hi} *)
colonH16(lo, hi) == Rep(Cat(<<Lit(":"), h16>>), lo, hi)

(* (25[0-5]|(2[0-4]|1{0,1}[0-9]){0,1}[0-9]) *)
decOctet ==
  Alt(<< Cat(<<Lit("2"), Lit("5"), Cls(D05)>>),
         Cat(<< Rep(Alt(<< Cat(<<Lit("2"), Cls(D04)>>),
                           Cat(<<Rep(Lit("1"), 0, 1), Cls(Digit)>>) >>), 0, 1),
                Cls(Digit) >>) >>)

(* ((25[0-5]|...)\.){3,3}(25[0-5]|...) *)
dotted == Cat(<<Rep(Cat(<<decOctet, Lit(".")>>), 3, 3), decOctet>>)

(* fe80:(:[0-9a-fA-F]{0,4}){0,4}%[0-9a-zA-Z]{1,} *)
linkLocal ==
  Cat(<< Lit("f"), Lit("e"), Lit("8"), Lit("0"), Lit(":"),
         Rep(Cat(<<Lit(":"), Rep(Cls(HexDigit), 0, 4)>>), 0, 4),
         Lit("%"), Rep(Cls(AlNum), 1, Inf) >>)

(* ::(ffff(:0{1,4}){0,1}:){0,1}<dotted> *)
mappedV4 ==
  Cat(<< Lit(":"), Lit(":"),
         Rep(Cat(<< Lit("f"), Lit("f"), Lit("f"), Lit("f"),
                    Rep(Cat(<<Lit(":"), Rep(Lit("0"), 1, 4)>>), 0, 1),
                    Lit(":") >>), 0, 1),
         dotted >>)

(* ([0-9a-fA-F]{1,4}:){1,4}:<dotted> *)
embeddedV4 == Cat(<<h16Colon(1, 4), Lit(":"), dotted>>)

(* the pattern without the alternative for a leading "::" *)
ipv6RegexNoLeading ==
  Alt(<< Cat(<<h16Colon(7, 7), h16>>),
         Cat(<<h16Colon(1, 7), Lit(":")>>),
         Cat(<<h16Colon(1, 6), Lit(":"), h16>>),
         Cat(<<h16Colon(1, 5), colonH16(1, 2)>>),
         Cat(<<h16Colon(1, 4), colonH16(1, 3)>>),
         Cat(<<h16Colon(1, 3), colonH16(1, 4)>>),
         Cat(<<h16Colon(1, 2), colonH16(1, 5)>>),
         Cat(<<h16, Lit(":"), colonH16(1, 6)>>),
         linkLocal,
         mappedV4,
         embeddedV4 >>)

ipv6Regex ==
  Alt(<< Cat(<<h16Colon(7, 7), h16>>),
         Cat(<<h16Colon(1, 7), Lit(":")>>),
         Cat(<<h16Colon(1, 6), Lit(":"), h16>>),
         Cat(<<h16Colon(1, 5), colonH16(1, 2)>>),
         Cat(<<h16Colon(1, 4), colonH16(1, 3)>>),
         Cat(<<h16Colon(1, 3), colonH16(1, 4)>>),
         Cat(<<h16Colon(1, 2), colonH16(1, 5)>>),
         Cat(<<h16, Lit(":"), colonH16(1, 6)>>),
         Cat(<<Lit(":"), Alt(<<colonH16(1, 7), Lit(":")>>)>>),
         linkLocal,
         mappedV4,
         embeddedV4 >>)

isValidIPv6(s) == Test(ipv6Regex, s)

isValidIP(s) == isValidIPv4(s) \/ isValidIPv6(s)

-----------------------------------------------------------------------------
(* String.prototype and Array.prototype methods used by the reversal.      *)

(* s.indexOf(sep, from), 1-based; 0 when sep does not occur. *)
IndexOf(s, sep, from) ==
  LET hits == {i \in from..(Len(s) - Len(sep) + 1) :
                 SubSeq(s, i, i + Len(sep) - 1) = sep}
  IN  IF hits = {} THEN 0 ELSE CHOOSE i \in hits : \A j \in hits : i <= j

(* s.includes(sep) *)
Includes(s, sep) == IndexOf(s, sep, 1) # 0

(* s.startsWith(pre) *)
StartsWith(s, pre) == Len(s) >= Len(pre) /\ SubSeq(s, 1, Len(pre)) = pre

(* s.split(sep) for a non-empty separator: cut at the successive           *)
(* non-overlapping occurrences, left to right.                             *)
RECURSIVE Split(_, _)
Split(s, sep) ==
  LET i == IndexOf(s, sep, 1)
  IN  IF i = 0 THEN <<s>>
      ELSE <<SubSeq(s, 1, i - 1)>> \o Split(SubSeq(s, i + Len(sep), Len(s)), sep)

(* a.join(sep) *)
RECURSIVE Join(_, _)
Join(a, sep) ==
  IF Len(a) = 0 THEN <<>>
  ELSE IF Len(a) = 1 THEN a[1]
  ELSE a[1] \o sep \o Join(Tail(a), sep)

(* a.reverse() *)
Reverse(a) == [i \in 1..Len(a) |-> a[Len(a) + 1 - i]]

(* g.padStart(n, c): g itself when it is already n long or longer. *)
PadStart(g, n, c) ==
  IF Len(g) >= n THEN g ELSE [i \in 1..(n - Len(g)) |-> c] \o g

-----------------------------------------------------------------------------
(* The strings the operations are called with.                             *)

MaxGroups == 9

MaxFields == 5

MaxDigits == 4

MaxZoneGroups == 4

(* n-tuples over a set of strings *)
RECURSIVE Tuples(_, _)
Tuples(S, n) ==
  IF n = 0 THEN {<<>>}
  ELSE {<<x>> \o t : x \in S, t \in Tuples(S, n - 1)}

TuplesUpTo(S, n) == UNION {Tuples(S, k) : k \in 0..n}

(* digit strings of 0..MaxDigits digits; 166/266, 206/226/256 and 255/256  *)
(* separate the three branches of the octet pattern                        *)
FieldDigits == {"0", "1", "2", "5", "6"}

Fields == TuplesUpTo(FieldDigits, MaxDigits)

baseV4 == <<<<"1", "9", "2">>, <<"1", "6", "8">>, <<"6">>, <<"5">>, <<"1", "0">>, <<"0">>>>

(* the base address with one field replaced by f *)
V4OneField ==
  {Join([SubSeq(baseV4, 1, 4) EXCEPT ![p] = f], <<".">>) :
     p \in 1..4, f \in Fields \cup {<<"a">>, <<"1", "a">>, <<" ", "1">>, <<"-", "1">>, <<"0", "x", "1">>}}

(* four fields with and without leading zeros *)
V4Zeros ==
  {Join(t, <<".">>) : t \in Tuples({<<"0">>, <<"0", "1">>, <<"0", "0", "2">>, <<"2", "5", "5">>}, 4)}

(* other field counts and stray characters around a dotted address *)
V4Shape ==
  {pre \o Join(SubSeq(baseV4, 1, n), sep) \o post :
     n \in 0..MaxFields,
     sep \in {<<".">>, <<".", ".">>, <<":">>, <<",">>},
     pre \in {<<>>, <<" ">>, <<".">>},
     post \in {<<>>, <<" ">>, <<".">>, <<"\n">>, <<"a">>}}

hexGroups == <<<<"2", "0", "0", "1">>, <<"d", "b", "8">>, <<"0">>, <<"8", "a", "2", "e">>, <<"3", "7", "0">>, <<"7", "3", "3", "4">>, <<"A", "b", "C", "d">>, <<"F">>, <<"1">>, <<"0", "d", "b", "8">>>>

(* n groups, taken from hexGroups starting after position st *)
Groups(st, n) == [i \in 1..n |-> hexGroups[((i + st - 1) % Len(hexGroups)) + 1]]

(* the groups gs joined by ":", with "::" instead at the gaps in D; gap 0   *)
(* is before the first group and gap Len(gs) after the last                *)
RECURSIVE V6From(_, _, _)
V6From(gs, D, i) ==
  IF i > Len(gs) THEN <<>>
  ELSE gs[i] \o (IF i \in D THEN <<":", ":">> ELSE IF i < Len(gs) THEN <<":">> ELSE <<>>)
             \o V6From(gs, D, i + 1)

V6String(gs, D) == (IF 0 \in D THEN <<":", ":">> ELSE <<>>) \o V6From(gs, D, 1)

Gaps(n, k) == {D \in SUBSET (0..n) : Cardinality(D) <= k}

(* hex groups only, with no, one or two "::" *)
V6Hex ==
  UNION {{V6String(Groups(st, n), D) : st \in {0, 5}, D \in Gaps(n, 2)} :
           n \in 0..MaxGroups}

badGroups ==
  {<<>>,
   <<"1", "2", "3", "4", "5">>,
   <<"g">>,
   <<"0", "0", "0", "0", "0">>,
   <<"1", " ">>}

dottedTails ==
  {<<"1", ".", "2", ".", "3", ".", "4">>,
   <<"2", "5", "5", ".", "2", "5", "5", ".", "2", "5", "5", ".", "2", "5", "5">>,
   <<"2", "5", "6", ".", "1", ".", "1", ".", "1">>,
   <<"0", "1", ".", "2", ".", "3", ".", "4">>,
   <<"1", ".", "2", ".", "3">>,
   <<"1", "9", "2", ".", "1", "6", "8", ".", "1", ".", "1">>,
   <<"1", "0", ".", "0", ".", "2", "0", ".", "2", "1">>}

(* one malformed group among the hex groups *)
V6Bad ==
  UNION {{V6String([Groups(0, n) EXCEPT ![p] = g], D) :
            p \in 1..n, D \in Gaps(n, 1), g \in badGroups} : n \in 1..MaxGroups}

(* a dotted IPv4 tail in the place of the last group *)
V6Dotted ==
  UNION {{V6String([Groups(0, n) EXCEPT ![n] = g], D) :
            D \in Gaps(n, 1), g \in dottedTails} : n \in 1..MaxGroups}

(* the IPv4-mapped forms ::ffff:a.b.c.d and ::ffff:0:a.b.c.d *)
V6Mapped ==
  {V6String(hd \o <<g>>, D) :
     hd \in {<<<<"f", "f", "f", "f">>>>, <<<<"F", "F", "F", "F">>>>, <<<<"f", "f", "f">>>>, <<<<"f", "f", "f", "f">>, <<"0">>>>, <<<<"f", "f", "f", "f">>, <<"0", "0", "0", "0">>>>,
             <<<<"f", "f", "f", "f">>, <<"0", "0", "0", "0", "0">>>>, <<<<"f", "f", "f", "f">>, <<"1">>>>, <<<<"0">>, <<"f", "f", "f", "f">>>>},
     g \in dottedTails,
     D \in {{}, {0}, {0, 1}, {1}}}

zoneIds == {<<>>, <<"%">>, <<"%", "e", "t", "h", "0">>, <<"%", "1">>, <<"%", "e", "-", "0">>}

(* the link-local forms: a prefix, up to MaxZoneGroups ":group" and a zone *)
V6Zone ==
  {pre \o Join(<<<<>>>> \o t, <<":">>) \o z :
     pre \in {<<"f", "e", "8", "0", ":">>, <<"f", "e", "8", "0">>, <<"F", "E", "8", "0", ":">>, <<"1", ":">>},
     t \in TuplesUpTo({<<>>, <<"1">>, <<"A", "b", "C", "d">>}, MaxZoneGroups),
     z \in zoneIds}

Junk ==
  {<<>>,
   <<"n", "o", "t", "-", "a", "n", "-", "i", "p">>,
   <<"u", "n", "k", "n", "o", "w", "n">>,
   <<":">>,
   <<".">>,
   <<":", ":", ":">>,
   <<"1">>,
   <<"l", "o", "c", "a", "l", "h", "o", "s", "t">>}

(* the addresses used as examples in the README and the comments *)
Examples ==
  {<<"1", "9", "2", ".", "1", "6", "8", ".", "6", ".", "5">>,
   <<"1", "9", "2", ".", "1", "6", "8", ".", "1", ".", "1">>,
   <<"2", "5", "6", ".", "1", ".", "1", ".", "1">>,
   <<"0", "1", ".", "0", "0", "2", ".", "3", ".", "4">>,
   <<":", ":", "1">>,
   <<"2", "0", "0", "1", ":", "d", "b", "8", ":", ":", "1">>,
   <<"2", "0", "0", "1", ":", "d", "b", "8", ":", ":", "8", "a", "2", "e", ":", "3", "7", "0", ":", "7", "3", "3", "4">>,
   <<"2", "0", "0", "1", ":", "0", "d", "b", "8", ":", "8", "5", "a", "3", ":", "0", "0", "0", "0", ":", "0", "0", "0", "0", ":", "8", "a", "2", "e", ":", "0", "3", "7", "0", ":", "7", "3", "3", "4">>}

(* fully expanded addresses: 8 groups of exactly 4 hex digits *)
V6Full ==
  {Join(t, <<":">>) : t \in Tuples({<<"0", "0", "0", "0">>, <<"A", "b", "C", "d">>}, 8)}
    \cup {Join([i \in 1..8 |-> PadStart(Groups(st, 8)[i], 4, "0")], <<":">>) : st \in 0..9}

mappedPrefix == <<":", ":", "f", "f", "f", "f", ":">>

(* strings with the "::ffff:" prefix, once and twice *)
Prefixed ==
  {mappedPrefix \o t :
     t \in {<<>>, <<"z", "z", "z", "z">>, <<"1", "0", ".", "0", ".", "0", ".", "5">>, <<"1", "9", "2", ".", "1", "6", "8", ".", "1", ".", "1">>, <<":", ":", "f", "f", "f", "f", ":", "1", ".", "2", ".", "3", ".", "4">>, <<":", ":", "f", "f", "f", "f", ":">>, <<" ", "1", ".", "2", ".", "3", ".", "4">>}}
    \cup {<<"1", "0", ".", "0", ".", "0", ".", "5">>, <<":", "f", "f", "f", "f", ":", "1", ".", "2", ".", "3", ".", "4">>, <<":", ":", "f", "f", "f", ":", "1", ".", "2", ".", "3", ".", "4">>, <<":", ":", "F", "F", "F", "F", ":", "1", ".", "2", ".", "3", ".", "4">>, <<" ", ":", ":", "f", "f", "f", "f", ":", "1", ".", "2", ".", "3", ".", "4">>}

Inputs ==
  V4OneField \cup V4Zeros \cup V4Shape \cup V6Hex \cup V6Bad \cup V6Dotted
    \cup V6Mapped \cup V6Zone \cup Junk \cup Examples \cup V6Full \cup Prefixed

-----------------------------------------------------------------------------
(* Outcome of a call: a boolean, a string, or a thrown error.              *)

Bool(b) == [kind |-> "bool", b |-> b, val |-> <<>>, err |-> ""]

Str(v) == [kind |-> "ok", b |-> FALSE, val |-> v, err |-> ""]

Throw(e) == [kind |-> "throw", b |-> FALSE, val |-> <<>>, err |-> e]

None == [kind |-> "none", b |-> FALSE, val |-> <<>>, err |-> ""]

-----------------------------------------------------------------------------
(* The reverse operations.                                                 *)

(* a field without its leading zeros, as a numeric parse would print it *)
RECURSIVE StripZeros(_)
StripZeros(f) ==
  IF Len(f) > 1 /\ f[1] = "0" THEN StripZeros(Tail(f)) ELSE f

(* reverseIPv4 printing each octet in canonical decimal form *)
reverseIPv4Renormalised(s) ==
  IF ~isValidIPv4(s) THEN Throw("Invalid IPv4 address")
  ELSE LET f == Reverse(Split(s, <<".">>))
       IN  Str(Join([i \in 1..Len(f) |-> StripZeros(f[i])], <<".">>))

(* reverseIPv4 without its validity check *)
reverseIPv4Unchecked(s) == Str(Join(Reverse(Split(s, <<".">>)), <<".">>))

reverseIPv4(s) ==
  IF ~isValidIPv4(s) THEN Throw("Invalid IPv4 address")
  ELSE Str(Join(Reverse(Split(s, <<".">>)), <<".">>))

totalGroups == 8

(* parts[k] ? parts[k].split(':') : [] *)
SidePart(part) == IF part = <<>> THEN <<>> ELSE Split(part, <<":">>)

(* totalGroups - leftPart.length - rightPart.length *)
missingGroups(s) ==
  LET parts == Split(s, <<":", ":">>)
  IN  totalGroups - Len(SidePart(parts[1])) - Len(SidePart(parts[2]))

(* expandIPv6 without the padding of the groups *)
expandIPv6NoPad(s) ==
  IF Includes(s, <<":", ":">>)
    THEN LET parts == Split(s, <<":", ":">>)
             n == missingGroups(s)
         IN  IF n < 0 THEN Throw("RangeError: Invalid array length")
             ELSE Str(Join(SidePart(parts[1]) \o [i \in 1..n |-> <<"0", "0", "0", "0">>]
                             \o SidePart(parts[2]), <<":">>))
    ELSE Str(s)

(* Array(n).fill('0000') throws a RangeError for a negative n. *)
expandIPv6(s) ==
  IF Includes(s, <<":", ":">>)
    THEN LET parts == Split(s, <<":", ":">>)
             leftPart == SidePart(parts[1])
             rightPart == SidePart(parts[2])
             n == missingGroups(s)
         IN  IF n < 0 THEN Throw("RangeError: Invalid array length")
             ELSE LET zeroGroups == [i \in 1..n |-> <<"0", "0", "0", "0">>]
                      fullParts == leftPart \o zeroGroups \o rightPart
                      joined == Join(fullParts, <<":">>)
                      groups == Split(joined, <<":">>)
                  IN  Str(Join([i \in 1..Len(groups) |-> PadStart(groups[i], 4, "0")], <<":">>))
    ELSE LET groups == Split(s, <<":">>)
         IN  Str(Join([i \in 1..Len(groups) |-> PadStart(groups[i], 4, "0")], <<":">>))

(* reverseIPv6 writing each group without its leading zeros *)
reverseIPv6Shortened(s) ==
  IF ~isValidIPv6(s) THEN Throw("Invalid IPv6 address")
  ELSE LET e == expandIPv6(s)
       IN  IF e.kind = "throw" THEN e
           ELSE LET g == Reverse(Split(e.val, <<":">>))
                IN  Str(Join([i \in 1..Len(g) |-> StripZeros(g[i])], <<":">>))

reverseIPv6(s) ==
  IF ~isValidIPv6(s) THEN Throw("Invalid IPv6 address")
  ELSE LET e == expandIPv6(s)
       IN  IF e.kind = "throw" THEN e
           ELSE Str(Join(Reverse(Split(e.val, <<":">>)), <<":">>))

(* reverseIP choosing the family by the presence of a dot *)
reverseIPByDot(s) ==
  IF Includes(s, <<".">>) THEN reverseIPv4(s)
  ELSE IF isValidIPv6(s) THEN reverseIPv6(s)
  ELSE Throw("Invalid IP address format")

reverseIP(s) ==
  IF isValidIPv4(s) THEN reverseIPv4(s)
  ELSE IF isValidIPv6(s) THEN reverseIPv6(s)
  ELSE Throw("Invalid IP address format")

-----------------------------------------------------------------------------
(* extractClientIP and normalizeIP.  A header or an address of the request *)
(* is a string or undefined.                                               *)

Undefined == [def |-> FALSE, s |-> <<>>]

Some(s) == [def |-> TRUE, s |-> s]

(* JavaScript truthiness of a string-or-undefined value *)
Truthy(o) == o.def /\ o.s # <<>>

(* a || b *)
OrElse(a, b) == IF Truthy(a) THEN a ELSE b

(* the white space and line terminators String.prototype.trim removes,     *)
(* among the characters of the model                                       *)
WhiteSpace == {" ", "\t", "\n", "\r"}

RECURSIVE TrimStart(_)
TrimStart(s) == IF s # <<>> /\ s[1] \in WhiteSpace THEN TrimStart(Tail(s)) ELSE s

RECURSIVE TrimEnd(_)
TrimEnd(s) ==
  IF s # <<>> /\ s[Len(s)] \in WhiteSpace THEN TrimEnd(SubSeq(s, 1, Len(s) - 1)) ELSE s

(* s.trim() *)
Trim(s) == TrimEnd(TrimStart(s))

(* s.substring(n) *)
Substring(s, n) == SubSeq(s, n + 1, Len(s))

unknown == <<"u", "n", "k", "n", "o", "w", "n">>

(* req.connection?.remoteAddress || req.socket?.remoteAddress *)
clientIP(r) == OrElse(r.connAddr, r.sockAddr)

(* extractClientIP looking at x-real-ip before x-forwarded-for *)
extractClientIPRealFirst(r) ==
  LET raw == clientIP(r)
  IN  IF Truthy(r.realIP) THEN Str(r.realIP.s)
      ELSE IF Truthy(r.forwarded) THEN Str(Trim(Split(r.forwarded.s, <<",">>)[1]))
      ELSE IF Truthy(raw) /\ StartsWith(raw.s, mappedPrefix) THEN Str(Substring(raw.s, 7))
      ELSE IF Truthy(raw) THEN Str(raw.s)
      ELSE Str(unknown)

(* extractClientIP removing the prefix only from an IPv4-mapped address *)
extractClientIPMappedOnly(r) ==
  LET raw == clientIP(r)
  IN  IF Truthy(r.forwarded) THEN Str(Trim(Split(r.forwarded.s, <<",">>)[1]))
      ELSE IF Truthy(r.realIP) THEN Str(r.realIP.s)
      ELSE IF Truthy(raw) /\ StartsWith(raw.s, mappedPrefix) /\ isValidIPv4(Substring(raw.s, 7))
        THEN Str(Substring(raw.s, 7))
      ELSE IF Truthy(raw) THEN Str(raw.s)
      ELSE Str(unknown)

(* extractClientIP calling startsWith on an address that may be undefined *)
extractClientIPUnguarded(r) ==
  LET raw == clientIP(r)
  IN  IF Truthy(r.forwarded) THEN Str(Trim(Split(r.forwarded.s, <<",">>)[1]))
      ELSE IF Truthy(r.realIP) THEN Str(r.realIP.s)
      ELSE IF ~raw.def THEN Throw("TypeError: Cannot read properties of undefined")
      ELSE IF StartsWith(raw.s, mappedPrefix) THEN Str(Substring(raw.s, 7))
      ELSE IF Truthy(raw) THEN Str(raw.s)
      ELSE Str(unknown)

extractClientIP(r) ==
  LET forwarded == r.forwarded
      realIP == r.realIP
      raw == clientIP(r)
  IN  IF Truthy(forwarded) THEN Str(Trim(Split(forwarded.s, <<",">>)[1]))
      ELSE IF Truthy(realIP) THEN Str(realIP.s)
      ELSE IF Truthy(raw) /\ StartsWith(raw.s, mappedPrefix) THEN Str(Substring(raw.s, 7))
      ELSE IF Truthy(raw) THEN Str(raw.s)
      ELSE Str(unknown)

(* normalizeIP removing the prefix as often as it occurs *)
RECURSIVE normalizeIPRepeated(_)
normalizeIPRepeated(s) ==
  IF StartsWith(s, mappedPrefix) THEN normalizeIPRepeated(Substring(s, 7)) ELSE Str(s)

normalizeIP(s) ==
  IF StartsWith(s, mappedPrefix) THEN Str(Substring(s, 7)) ELSE Str(s)

(* the requests extractClientIP is called with *)
(* validateIP of the IPReverser form, with its own two patterns *)
(* /^([0-9a-fA-F]{1,4}:){7}[0-9a-fA-F]{1,4}$|^::1$|^::$/ *)
formIpv6Regex ==
  Alt(<< Cat(<<Rep(Cat(<<h16, Lit(":")>>), 7, 7), h16>>),
         Cat(<<Lit(":"), Lit(":"), Lit("1")>>),
         Cat(<<Lit(":"), Lit(":")>>) >>)

validateIP(s) == Test(ipv4Regex, s) \/ Test(formIpv6Regex, s)

forwardedValues ==
  {Undefined, Some(<<>>), Some(<<" ">>), Some(<<"1", "0", ".", "0", ".", "2", "0", ".", "2", "1", ",", " ", "5", ".", "5", ".", "5", ".", "5">>), Some(<<" ", "1", "0", ".", "0", ".", "2", "0", ".", "2", "1", " ", ",", "5", ".", "5", ".", "5", ".", "5">>),
   Some(<<",", "5", ".", "5", ".", "5", ".", "5">>), Some(<<"1", ".", "2", ".", "3", ".", "4">>), Some(<<":", ":", "f", "f", "f", "f", ":", "1", ".", "2", ".", "3", ".", "4">>), Some(<<"n", "o", "t", "-", "a", "n", "-", "i", "p">>),
   Some(<<"\t", "1", ".", "2", ".", "3", ".", "4", "\n">>)}

realIPValues ==
  {Undefined, Some(<<>>), Some(<<"2", "0", "3", ".", "0", ".", "1", "1", "3", ".", "7">>), Some(<<" ", "1", ".", "2", ".", "3", ".", "4", " ">>), Some(<<":", ":", "f", "f", "f", "f", ":", "1", ".", "2", ".", "3", ".", "4">>)}

connValues ==
  {Undefined, Some(<<":", ":", "f", "f", "f", "f", ":", "1", "9", "2", ".", "1", "6", "8", ".", "1", ".", "1">>), Some(<<":", ":", "f", "f", "f", "f", ":", "z", "z", "z", "z">>), Some(<<":", ":", "f", "f", "f", "f", ":">>), Some(<<":", ":", "1">>),
   Some(<<"1", "9", "2", ".", "1", "6", "8", ".", "1", ".", "1">>), Some(<<":", ":", "f", "f", "f", "f", ":", ":", ":", "f", "f", "f", "f", ":", "1", ".", "2", ".", "3", ".", "4">>)}

sockValues == {Undefined, Some(<<"1", "0", ".", "0", ".", "0", ".", "5">>), Some(<<":", ":", "f", "f", "f", "f", ":", "1", "0", ".", "0", ".", "0", ".", "5">>)}

Requests ==
  [forwarded : forwardedValues, realIP : realIPValues, connAddr : connValues, sockAddr : sockValues]

(* a request without headers and without a connection address *)
emptyRequest ==
  [forwarded |-> Undefined, realIP |-> Undefined, connAddr |-> Undefined, sockAddr |-> Undefined]

-----------------------------------------------------------------------------
(* One call of one exported operation, on the string ip or, for            *)
(* extractClientIP, on the request req.  expandedIP is the local constant  *)
(* of reverseIPv6, None when the call does not reach it; twice is what a   *)
(* second reverseIP returns for the result of the first.                   *)

IdleCalls ==
  /\ lastIndex = [v4 |-> 0, v6 |-> 0]
  /\ calls = <<>>

IdleHttp ==
  /\ requests = <<>>
  /\ store = <<>>
  /\ svcArgs = {}

IdleCore ==
  /\ ip = <<>>
  /\ req = emptyRequest
  /\ op = "none"
  /\ result = None
  /\ expandedIP = None
  /\ twice = None

IdleServer == conns = <<>>

(* the process is running: the server listens, the database is connected *)
IdleProcess ==
  /\ signals = <<>>
  /\ server = "listening"
  /\ open = 0
  /\ ended = 0
  /\ callbacks = <<>>
  /\ timers = 0
  /\ db = "connected"
  /\ exitCode = -1
  /\ cause = ""

(* useState initial values of IPHistory *)
IdleHistory ==
  /\ searchQuery = <<>>
  /\ searchResults = [of |-> "none", query |-> <<>>]
  /\ isSearching = FALSE
  /\ debounce = <<>>
  /\ issued = <<>>

NoResult == [set |-> FALSE, originalIP |-> <<>>]

(* useState initial values of IPReverser; error "" is null *)
IdleForm ==
  /\ ipAddress = <<>>
  /\ formResult = NoResult
  /\ loading = FALSE
  /\ error = ""
  /\ pending = "none"

NotHandled ==
  [route |-> "none", status |-> 0, code |-> "", called |-> FALSE, page |-> 0, limit |-> 0]

IdlePaging ==
  /\ reqQuery = [page |-> Undefined, limit |-> Undefined, q |-> Undefined]
  /\ handled = NotHandled

IdleRest == IdleServer /\ IdleProcess /\ IdleHistory /\ IdleForm /\ IdlePaging

Init ==
  /\ \/ ip \in Inputs /\ req = emptyRequest
     \/ ip = <<>> /\ req \in Requests
  /\ op = "none"
  /\ result = None
  /\ expandedIP = None
  /\ twice = None
  /\ IdleCalls
  /\ IdleHttp
  /\ IdleRest

CallIsValidIPv4 ==
  /\ op = "none"
  /\ req = emptyRequest
  /\ op' = "isValidIPv4"
  /\ result' = Bool(isValidIPv4(ip))
  /\ UNCHANGED <<ip, req, expandedIP, twice, callVars, httpVars, restVars>>

CallIsValidIPv6 ==
  /\ op = "none"
  /\ req = emptyRequest
  /\ op' = "isValidIPv6"
  /\ result' = Bool(isValidIPv6(ip))
  /\ UNCHANGED <<ip, req, expandedIP, twice, callVars, httpVars, restVars>>

CallIsValidIP ==
  /\ op = "none"
  /\ req = emptyRequest
  /\ op' = "isValidIP"
  /\ result' = Bool(isValidIP(ip))
  /\ UNCHANGED <<ip, req, expandedIP, twice, callVars, httpVars, restVars>>

CallReverseIPv4 ==
  /\ op = "none"
  /\ req = emptyRequest
  /\ op' = "reverseIPv4"
  /\ result' = reverseIPv4(ip)
  /\ UNCHANGED <<ip, req, expandedIP, twice, callVars, httpVars, restVars>>

CallReverseIPv6 ==
  /\ op = "none"
  /\ req = emptyRequest
  /\ op' = "reverseIPv6"
  /\ result' = reverseIPv6(ip)
  /\ expandedIP' = IF isValidIPv6(ip) THEN expandIPv6(ip) ELSE None
  /\ UNCHANGED <<ip, req, twice, callVars, httpVars, restVars>>

CallReverseIP ==
  /\ op = "none"
  /\ req = emptyRequest
  /\ op' = "reverseIP"
  /\ result' = reverseIP(ip)
  /\ expandedIP' = IF ~isValidIPv4(ip) /\ isValidIPv6(ip) THEN expandIPv6(ip) ELSE None
  /\ UNCHANGED <<ip, req, twice, callVars, httpVars, restVars>>

(* reverseIP called on the string a first call of reverseIP returned *)
CallReverseIPAgain ==
  /\ op = "reverseIP"
  /\ result.kind = "ok"
  /\ op' = "reverseIP twice"
  /\ twice' = reverseIP(result.val)
  /\ UNCHANGED <<ip, req, result, expandedIP, callVars, httpVars, restVars>>

CallExtractClientIP ==
  /\ op = "none"
  /\ ip = <<>>
  /\ op' = "extractClientIP"
  /\ result' = extractClientIP(req)
  /\ UNCHANGED <<ip, req, expandedIP, twice, callVars, httpVars, restVars>>

CallNormalizeIP ==
  /\ op = "none"
  /\ req = emptyRequest
  /\ op' = "normalizeIP"
  /\ result' = normalizeIP(ip)
  /\ UNCHANGED <<ip, req, expandedIP, twice, callVars, httpVars, restVars>>

CallValidateIP ==
  /\ op = "none"
  /\ req = emptyRequest
  /\ op' = "validateIP"
  /\ result' = Bool(validateIP(ip))
  /\ UNCHANGED <<ip, req, expandedIP, twice, callVars, httpVars, restVars>>

Next ==
  \/ CallIsValidIPv4
  \/ CallIsValidIPv6
  \/ CallIsValidIP
  \/ CallReverseIPv4
  \/ CallReverseIPv6
  \/ CallReverseIP
  \/ CallReverseIPAgain
  \/ CallExtractClientIP
  \/ CallNormalizeIP
  \/ CallValidateIP

Spec == Init /\ [][Next]_vars

-----------------------------------------------------------------------------
(* Calls by several callers.  The only objects of IpUtils that could carry *)
(* anything from one call to the next are the RegExp objects of the two    *)
(* validators: lastIndex holds the lastIndex property of the RegExp object *)
(* each validator tested last.  A call runs to completion before the next  *)
(* one starts; calls[c] is the last call of caller c and what it returned. *)

RegExp(pattern, global, li) == [pattern |-> pattern, global |-> global, lastIndex |-> li]

(* RegExp.prototype.test: without the g flag the match starts at 0 and     *)
(* lastIndex is left alone; with it the match starts at lastIndex, where ^ *)
(* only matches at 0, and lastIndex becomes the end of the match, or 0.    *)
RegExpTest(re, s) ==
  IF ~re.global THEN [ret |-> Test(re.pattern, s), lastIndex |-> re.lastIndex]
  ELSE IF re.lastIndex = 0 /\ Test(re.pattern, s) THEN [ret |-> TRUE, lastIndex |-> Len(s)]
  ELSE [ret |-> FALSE, lastIndex |-> 0]

(* one RegExp object with the g flag, kept from one call to the next *)
ipv4LiteralShared(li) == RegExp(ipv4Regex, TRUE, li)

(* const ipv4Regex = /^...$/ inside the function: a new object per call *)
ipv4Literal(li) == RegExp(ipv4Regex, FALSE, 0)

ipv6Literal(li) == RegExp(ipv6Regex, FALSE, 0)

isValidIPv4Call(s, li) ==
  LET t == RegExpTest(ipv4Literal(li.v4), s)
  IN  [ret |-> t.ret, li |-> [li EXCEPT !.v4 = t.lastIndex]]

isValidIPv6Call(s, li) ==
  LET t == RegExpTest(ipv6Literal(li.v6), s)
  IN  [ret |-> t.ret, li |-> [li EXCEPT !.v6 = t.lastIndex]]

(* isValidIPv4(ip) || isValidIPv6(ip) *)
isValidIPCall(s, li) ==
  LET a == isValidIPv4Call(s, li)
  IN  IF a.ret THEN [ret |-> Bool(TRUE), li |-> a.li]
      ELSE LET b == isValidIPv6Call(s, a.li) IN [ret |-> Bool(b.ret), li |-> b.li]

reverseIPv4Call(s, li) ==
  LET a == isValidIPv4Call(s, li)
  IN  IF ~a.ret THEN [ret |-> Throw("Invalid IPv4 address"), li |-> a.li]
      ELSE [ret |-> Str(Join(Reverse(Split(s, <<".">>)), <<".">>)), li |-> a.li]

reverseIPv6Call(s, li) ==
  LET a == isValidIPv6Call(s, li)
  IN  IF ~a.ret THEN [ret |-> Throw("Invalid IPv6 address"), li |-> a.li]
      ELSE LET e == expandIPv6(s)
           IN  IF e.kind = "throw" THEN [ret |-> e, li |-> a.li]
               ELSE [ret |-> Str(Join(Reverse(Split(e.val, <<":">>)), <<":">>)), li |-> a.li]

reverseIPCall(s, li) ==
  LET a == isValidIPv4Call(s, li)
  IN  IF a.ret THEN reverseIPv4Call(s, a.li)
      ELSE LET b == isValidIPv6Call(s, a.li)
           IN  IF b.ret THEN reverseIPv6Call(s, b.li)
               ELSE [ret |-> Throw("Invalid IP address format"), li |-> b.li]

NumCallers == 2

Callers == 1..NumCallers

CallStrings == {<<"1", ".", "2", ".", "3", ".", "4">>, <<":", ":", "1">>, <<":", ":", "f", "f", "f", "f", ":", "1", ".", "2", ".", "3", ".", "4">>, <<"1", ".", "2", ".", "3">>}

CallRequests ==
  {[emptyRequest EXCEPT !.connAddr = Some(<<":", ":", "f", "f", "f", "f", ":", "1", ".", "2", ".", "3", ".", "4">>)],
   [emptyRequest EXCEPT !.forwarded = Some(<<"1", ".", "2", ".", "3", ".", "4", ",", " ", "5", ".", "6", ".", "7", ".", "8">>), !.realIP = Some(<<":", ":", "1">>)]}

NoCall == [op |-> "none", ip |-> <<>>, req |-> emptyRequest, ret |-> None]

InitCalls ==
  /\ ip = <<>>
  /\ req = emptyRequest
  /\ op = "none"
  /\ result = None
  /\ expandedIP = None
  /\ twice = None
  /\ lastIndex = [v4 |-> 0, v6 |-> 0]
  /\ calls = [c \in Callers |-> NoCall]
  /\ IdleHttp
  /\ IdleRest

CallerIsValidIP ==
  \E c \in Callers, s \in CallStrings :
    LET r == isValidIPCall(s, lastIndex)
    IN  /\ lastIndex' = r.li
        /\ calls' = [calls EXCEPT ![c] = [op |-> "isValidIP", ip |-> s, req |-> emptyRequest, ret |-> r.ret]]
        /\ UNCHANGED <<coreVars, httpVars, restVars>>

CallerReverseIP ==
  \E c \in Callers, s \in CallStrings :
    LET r == reverseIPCall(s, lastIndex)
    IN  /\ lastIndex' = r.li
        /\ calls' = [calls EXCEPT ![c] = [op |-> "reverseIP", ip |-> s, req |-> emptyRequest, ret |-> r.ret]]
        /\ UNCHANGED <<coreVars, httpVars, restVars>>

CallerExtractClientIP ==
  \E c \in Callers, r \in CallRequests :
    /\ calls' = [calls EXCEPT ![c] = [op |-> "extractClientIP", ip |-> <<>>, req |-> r, ret |-> extractClientIP(r)]]
    /\ UNCHANGED <<lastIndex, coreVars, httpVars, restVars>>

CallerNormalizeIP ==
  \E c \in Callers, s \in CallStrings :
    /\ calls' = [calls EXCEPT ![c] = [op |-> "normalizeIP", ip |-> s, req |-> emptyRequest, ret |-> normalizeIP(s)]]
    /\ UNCHANGED <<lastIndex, coreVars, httpVars, restVars>>

NextCalls ==
  \/ CallerIsValidIP
  \/ CallerReverseIP
  \/ CallerExtractClientIP
  \/ CallerNormalizeIP

SpecCalls == InitCalls /\ [][NextCalls]_vars

-----------------------------------------------------------------------------
(* The two storing endpoints.  requests holds every request received, in   *)
(* order of arrival, each with the point its handler has reached; store is *)
(* the ReversedIP table; svcArgs collects every originalIP handed to       *)
(* reverseAndStore.  The field by of a stored record names the request     *)
(* whose handler created it.                                               *)

(* the ip member of the parsed JSON body: missing, a string, or an array   *)
(* holding one string                                                      *)
JsUndefined == [kind |-> "undefined", s |-> <<>>]

JsString(s) == [kind |-> "string", s |-> s]

JsArray(s) == [kind |-> "array", s |-> s]

(* String(v), as RegExp.prototype.test applies it to its argument *)
StringOf(v) == IF v.kind = "undefined" THEN <<"u", "n", "d", "e", "f", "i", "n", "e", "d">> ELSE v.s

(* !ip, true of undefined only *)
NotAbsentOnly(v) == v.kind = "undefined"

(* !ip *)
Not(v) == v.kind = "undefined" \/ (v.kind = "string" /\ v.s = <<>>)

(* reverseIP on a value of the body: an array passes the validators as its *)
(* only element and has no split method                                    *)
reverseIPOf(v) ==
  IF v.kind = "string" THEN reverseIP(v.s)
  ELSE IF isValidIP(StringOf(v)) THEN Throw("TypeError: ip.split is not a function")
  ELSE Throw("Invalid IP address format")

NoData == [originalIP |-> <<>>, reversedIP |-> <<>>, requestIP |-> <<>>]

(* reverseAndStore up to its await: throws, or has the data of the create *)
reverseAndStore(originalIP, r) ==
  LET reversedIP == reverseIPOf(originalIP)
      n == normalizeIP(extractClientIP(r).val).val
      requestIP == IF n = <<>> THEN unknown ELSE n
  IN  IF reversedIP.kind = "throw" THEN [threw |-> TRUE, data |-> NoData]
      ELSE [threw |-> FALSE,
            data |-> [originalIP |-> originalIP.s, reversedIP |-> reversedIP.val,
                      requestIP |-> requestIP]]

Answer(status, code) == [status |-> status, code |-> code, call |-> FALSE, arg |-> JsUndefined]

CallService(arg) == [status |-> 0, code |-> "", call |-> TRUE, arg |-> arg]

(* IPController.reverseIP without the isValidIP check *)
reverseIPControllerUngated(body) ==
  IF Not(body) THEN Answer(400, "MISSING_IP") ELSE CallService(body)

(* IPController.reverseIP up to the call of the service; body is req.body.ip *)
reverseIPController(body) ==
  IF Not(body) THEN Answer(400, "MISSING_IP")
  ELSE IF ~isValidIP(StringOf(body)) THEN Answer(400, "INVALID_IP")
  ELSE CallService(body)

(* IPController.getMyIP up to the call of the service *)
getMyIPController(r) ==
  LET detected == extractClientIP(r).val
  IN  IF detected = <<>> \/ detected = unknown THEN Answer(400, "IP_DETECTION_FAILED")
      ELSE IF ~isValidIP(detected) THEN Answer(400, "INVALID_DETECTED_IP")
      ELSE CallService(JsString(detected))

MaxRequests == 2

Bodies ==
  {JsUndefined, JsString(<<>>), JsString(<<"1", "9", "2", ".", "1", "6", "8", ".", "6", ".", "5">>), JsString(<<"1", ".", "2", ".", "3">>),
   JsString(<<":", ":", "1">>), JsArray(<<"1", ".", "2", ".", "3", ".", "4">>)}

HttpRequests ==
  {emptyRequest,
   [emptyRequest EXCEPT !.connAddr = Some(<<":", ":", "f", "f", "f", "f", ":", "1", "0", ".", "0", ".", "0", ".", "1">>)],
   [emptyRequest EXCEPT !.forwarded = Some(<<"b", "o", "g", "u", "s", ",", " ", "1", ".", "2", ".", "3", ".", "4">>)],
   [emptyRequest EXCEPT !.forwarded = Some(<<":", ":", "f", "f", "f", "f", ":", "1", ".", "2", ".", "3", ".", "4">>)]}

(* who sends a POST: a direct connection, or nothing known of the sender *)
PostSenders ==
  {emptyRequest, [emptyRequest EXCEPT !.connAddr = Some(<<":", ":", "f", "f", "f", "f", ":", "1", "0", ".", "0", ".", "0", ".", "1">>)]}

NoResp == [id |-> 0, originalIP |-> <<>>, reversedIP |-> <<>>, requestIP |-> <<>>]

InitHttp ==
  /\ ip = <<>>
  /\ req = emptyRequest
  /\ op = "none"
  /\ result = None
  /\ expandedIP = None
  /\ twice = None
  /\ IdleCalls
  /\ requests = <<>>
  /\ store = <<>>
  /\ svcArgs = {}
  /\ IdleRest

(* the handler runs up to its first await, or to its early return *)
Receive(route, body, r, c) ==
  IF ~c.call
    THEN /\ requests' = Append(requests,
               [route |-> route, ip |-> body, hdr |-> r, pc |-> "done", data |-> NoData,
                cause |-> "none", status |-> c.status, code |-> c.code, resp |-> NoResp])
         /\ UNCHANGED <<store, svcArgs>>
    ELSE LET sv == reverseAndStore(c.arg, r)
         IN  /\ requests' = Append(requests,
                   [route |-> route, ip |-> body, hdr |-> r,
                    pc |-> IF sv.threw THEN "rejected" ELSE "create", data |-> sv.data,
                    cause |-> IF sv.threw THEN "reversal" ELSE "none",
                    status |-> 0, code |-> "", resp |-> NoResp])
             /\ svcArgs' = svcArgs \cup {c.arg}
             /\ UNCHANGED store

PostReverse ==
  /\ Len(requests) < MaxRequests
  /\ \E body \in Bodies, r \in PostSenders :
       Receive("POST /api/ip/reverse", body, r, reverseIPController(body))
  /\ UNCHANGED <<coreVars, callVars, restVars>>

GetMyIP ==
  /\ Len(requests) < MaxRequests
  /\ \E r \in HttpRequests :
       Receive("GET /api/ip/my-ip", JsUndefined, r, getMyIPController(r))
  /\ UNCHANGED <<coreVars, callVars, restVars>>

(* prisma.reversedIP.create resolves: the record is in the table *)
DbCreateOk ==
  \E i \in 1..Len(requests) :
    /\ requests[i].pc = "create"
    /\ LET d == requests[i].data
           id == Len(store) + 1
       IN  /\ store' = Append(store, [id |-> id, by |-> i, originalIP |-> d.originalIP,
                                      reversedIP |-> d.reversedIP, requestIP |-> d.requestIP])
           /\ requests' = [requests EXCEPT ![i].pc = "resolved",
                             ![i].resp = [id |-> id, originalIP |-> d.originalIP,
                                          reversedIP |-> d.reversedIP,
                                          requestIP |-> d.requestIP]]
    /\ UNCHANGED <<svcArgs, coreVars, callVars, restVars>>

(* prisma.reversedIP.create rejects: nothing is stored *)
DbCreateFail ==
  \E i \in 1..Len(requests) :
    /\ requests[i].pc = "create"
    /\ requests' = [requests EXCEPT ![i].pc = "rejected", ![i].cause = "storage"]
    /\ UNCHANGED <<store, svcArgs, coreVars, callVars, restVars>>

(* the handler resumes after the await and sends the data *)
RespondSuccess ==
  \E i \in 1..Len(requests) :
    /\ requests[i].pc = "resolved"
    /\ requests' = [requests EXCEPT ![i].pc = "done",
                      ![i].status = IF requests[i].route = "POST /api/ip/reverse" THEN 201 ELSE 200]
    /\ UNCHANGED <<store, svcArgs, coreVars, callVars, restVars>>

(* the catch block of the handler *)
RespondError ==
  \E i \in 1..Len(requests) :
    /\ requests[i].pc = "rejected"
    /\ requests' = [requests EXCEPT ![i].pc = "done", ![i].status = 500,
                      ![i].code = "INTERNAL_ERROR"]
    /\ UNCHANGED <<store, svcArgs, coreVars, callVars, restVars>>

NextHttp ==
  \/ PostReverse
  \/ GetMyIP
  \/ DbCreateOk
  \/ DbCreateFail
  \/ RespondSuccess
  \/ RespondError

SpecHttp == InitHttp /\ [][NextHttp]_vars

-----------------------------------------------------------------------------
(* The request timeout against the handler of POST /api/ip/reverse.        *)
(* conns[i] is the response object of connection i: headersSent and status *)
(* as Node keeps them, written counts the responses put on the wire,       *)
(* attempts counts the calls of res.status(..).json(..) made after the     *)
(* headers were sent (each of which throws), timer is the timer of         *)
(* timeoutHandler, pc the point the handler has reached.                   *)

MaxConns == 2

TimedBodies == {JsUndefined, JsString(<<"x">>), JsString(<<"1", "9", "2", ".", "1", "6", "8", ".", "6", ".", "5">>), JsArray(<<"1", ".", "2", ".", "3", ".", "4">>)}

(* res.status(status).json(..): writes the response, or throws             *)
(* ERR_HTTP_HEADERS_SENT when one was written before                       *)
Send(c, status) ==
  IF c.headersSent THEN [c EXCEPT !.attempts = @ + 1]
  ELSE [c EXCEPT !.headersSent = TRUE, !.status = status, !.written = @ + 1]

NewConn(pc) ==
  [pc |-> pc, timer |-> "armed", headersSent |-> FALSE, status |-> 0, written |-> 0,
   attempts |-> 0]

InitTimeout ==
  /\ IdleCore
  /\ IdleCalls
  /\ IdleHttp
  /\ conns = <<>>
  /\ IdleProcess
  /\ IdleHistory
  /\ IdleForm
  /\ IdlePaging

(* the catch block sends 500; when that throws the promise rejects,        *)
(* asyncHandler passes the error to next and errorHandler sends again      *)
CatchBlock(c) ==
  IF c.headersSent THEN Send(Send(c, 500), 500) ELSE Send(c, 500)

(* timeoutHandler arms the timer and calls next(); the handler runs up to  *)
(* its early return or to its await; when reverseAndStore throws before    *)
(* its own await, the catch block runs before any timer can                *)
Accept ==
  /\ Len(conns) < MaxConns
  /\ \E body \in TimedBodies :
       LET c == reverseIPController(body)
       IN  conns' = Append(conns,
             IF ~c.call THEN Send(NewConn("done"), c.status)
             ELSE IF reverseAndStore(c.arg, emptyRequest).threw THEN CatchBlock(NewConn("done"))
             ELSE NewConn("create"))
  /\ UNCHANGED <<coreVars, callVars, httpVars, shutVars, histVars, formVars, pageVars>>

(* setTimeout callback: if (!res.headersSent) res.status(408).json(error) *)
TimerFires ==
  \E i \in 1..Len(conns) :
    /\ conns[i].timer = "armed"
    /\ conns' = [conns EXCEPT ![i] =
         IF conns[i].headersSent THEN [conns[i] EXCEPT !.timer = "fired"]
         ELSE [Send(conns[i], 408) EXCEPT !.timer = "fired"]]
    /\ UNCHANGED <<coreVars, callVars, httpVars, shutVars, histVars, formVars, pageVars>>

(* res.on('finish') / res.on('close'): clearTimeout(timer) *)
Finish ==
  \E i \in 1..Len(conns) :
    /\ conns[i].headersSent
    /\ conns[i].timer = "armed"
    /\ conns' = [conns EXCEPT ![i].timer = "cleared"]
    /\ UNCHANGED <<coreVars, callVars, httpVars, shutVars, histVars, formVars, pageVars>>

CreateResolves ==
  \E i \in 1..Len(conns) :
    /\ conns[i].pc = "create"
    /\ conns' = [conns EXCEPT ![i].pc = "resolved"]
    /\ UNCHANGED <<coreVars, callVars, httpVars, shutVars, histVars, formVars, pageVars>>

CreateRejects ==
  \E i \in 1..Len(conns) :
    /\ conns[i].pc = "create"
    /\ conns' = [conns EXCEPT ![i].pc = "rejected"]
    /\ UNCHANGED <<coreVars, callVars, httpVars, shutVars, histVars, formVars, pageVars>>

(* the handler resumes after the await: res.status(201).json(response),    *)
(* and the catch block when that throws                                    *)
HandlerResumes ==
  \E i \in 1..Len(conns) :
    /\ conns[i].pc \in {"resolved", "rejected"}
    /\ conns' = [conns EXCEPT ![i] =
         [(IF conns[i].pc = "rejected" THEN CatchBlock(conns[i])
           ELSE IF conns[i].headersSent THEN CatchBlock(Send(conns[i], 201))
           ELSE Send(conns[i], 201)) EXCEPT !.pc = "done"]]
    /\ UNCHANGED <<coreVars, callVars, httpVars, shutVars, histVars, formVars, pageVars>>

NextTimeout ==
  \/ Accept
  \/ TimerFires
  \/ Finish
  \/ CreateResolves
  \/ CreateRejects
  \/ HandlerResumes

SpecTimeout == InitTimeout /\ [][NextTimeout]_vars

-----------------------------------------------------------------------------
(* Shutdown.  signals are the signals received, server is the state of the *)
(* HTTP server, open the number of connections it still has, ended the     *)
(* number of connections that have ended, callbacks the callbacks given to server.close *)
(* and waiting for 'close' ("ok", or "err" when close was called on a      *)
(* server that was not listening any more), timers the number of armed     *)
(* 10-second timers, db the state of the database client, exitCode the     *)
(* code the process exited with (-1 while it runs) and cause what made it  *)
(* exit.                                                                   *)

MaxSignals == 2

MaxOpen == 3

OtherVars == <<coreVars, callVars, httpVars, srvVars, histVars, formVars, pageVars>>

InitShutdown ==
  /\ IdleCore
  /\ IdleCalls
  /\ IdleHttp
  /\ IdleServer
  /\ IdleProcess
  /\ IdleHistory
  /\ IdleForm
  /\ IdlePaging

(* a client connects to the listening server *)
Connect ==
  /\ exitCode = -1
  /\ server = "listening"
  /\ open + ended < MaxOpen
  /\ open' = open + 1
  /\ UNCHANGED <<signals, server, ended, callbacks, timers, db, exitCode, cause, OtherVars>>

(* 'close' is emitted: the callbacks run in the order they were given.  The *)
(* callback without error calls ipService.disconnect() and awaits it; a     *)
(* callback with an error calls process.exit(1).                            *)
EmitClose(cbs) ==
  /\ server' = "closed"
  /\ callbacks' = <<>>
  /\ db' = IF \E k \in 1..Len(cbs) : cbs[k] = "ok" THEN "disconnecting" ELSE db
  /\ IF \E k \in 1..Len(cbs) : cbs[k] = "err"
       THEN exitCode' = 1 /\ cause' = "close error"
       ELSE UNCHANGED <<exitCode, cause>>

(* process.on('SIGTERM' / 'SIGINT'): gracefulShutdown calls server.close   *)
(* with its callback and arms a 10-second timer                            *)
Signal ==
  /\ exitCode = -1
  /\ Len(signals) < MaxSignals
  /\ \E sig \in {"SIGTERM", "SIGINT"} : signals' = Append(signals, sig)
  /\ timers' = timers + 1
  /\ LET cbs == Append(callbacks, IF server = "listening" THEN "ok" ELSE "err")
     IN  IF open = 0 THEN EmitClose(cbs)
         ELSE /\ server' = IF server = "listening" THEN "closing" ELSE server
              /\ callbacks' = cbs
              /\ UNCHANGED <<db, exitCode, cause>>
  /\ UNCHANGED <<open, ended, OtherVars>>

(* a connection ends; the last one of a closing server makes it emit 'close' *)
ConnectionEnds ==
  /\ exitCode = -1
  /\ open > 0
  /\ open' = open - 1
  /\ ended' = ended + 1
  /\ IF server = "closing" /\ open = 1 THEN EmitClose(callbacks)
     ELSE UNCHANGED <<server, callbacks, db, exitCode, cause>>
  /\ UNCHANGED <<signals, timers, OtherVars>>

(* await ipService.disconnect() resolves: process.exit(0) *)
DisconnectOk ==
  /\ exitCode = -1
  /\ db = "disconnecting"
  /\ db' = "disconnected"
  /\ exitCode' = 0
  /\ cause' = "completed"
  /\ UNCHANGED <<signals, server, open, ended, callbacks, timers, OtherVars>>

(* await ipService.disconnect() rejects: the catch block, process.exit(1) *)
DisconnectFails ==
  /\ exitCode = -1
  /\ db = "disconnecting"
  /\ db' = "failed"
  /\ exitCode' = 1
  /\ cause' = "disconnect error"
  /\ UNCHANGED <<signals, server, open, ended, callbacks, timers, OtherVars>>

(* the force timer exiting with code 0 *)
ForceTimerFiresClean ==
  /\ exitCode = -1
  /\ timers > 0
  /\ exitCode' = 0
  /\ cause' = "force timer"
  /\ UNCHANGED <<signals, server, open, ended, callbacks, timers, db, OtherVars>>

(* setTimeout callback after 10 seconds: process.exit(1) *)
ForceTimerFires ==
  /\ exitCode = -1
  /\ timers > 0
  /\ exitCode' = 1
  /\ cause' = "force timer"
  /\ UNCHANGED <<signals, server, open, ended, callbacks, timers, db, OtherVars>>

NextShutdown ==
  \/ Connect
  \/ Signal
  \/ ConnectionEnds
  \/ DisconnectOk
  \/ DisconnectFails
  \/ ForceTimerFires

(* an armed timer fires after its delay if the process still runs *)
SpecShutdown == InitShutdown /\ [][NextShutdown]_vars /\ WF_vars(ForceTimerFires)

-----------------------------------------------------------------------------
(* The search box of IPHistory.  Time advances in ticks of 250 ms.  Each   *)
(* element of debounce is a timer armed by handleSearchChange: the query   *)
(* it will search, its age in ticks, and whether the box changed again     *)
(* less than 500 ms after it was armed.  issued holds the calls of         *)
(* apiService.searchIPs in the order they were made; searchResults is      *)
(* either the empty array or the results of one query.                     *)

MaxChanges == 3

DebounceTicks == 2

Queries == {<<>>, <<"1">>, <<"1", "2">>, <<" ">>}

NoResults == [of |-> "none", query |-> <<>>]

ResultsOf(q) == [of |-> "query", query |-> q]

InitHistory ==
  /\ IdleCore
  /\ IdleCalls
  /\ IdleHttp
  /\ IdleServer
  /\ IdleProcess
  /\ IdleHistory
  /\ IdleForm
  /\ IdlePaging

NotHistory == <<coreVars, callVars, httpVars, srvVars, shutVars, formVars, pageVars>>

(* handleSearchChange: setSearchQuery(query) and a new 500 ms timer; the   *)
(* function it returns is never called, so no timer is cleared             *)
handleSearchChange ==
  /\ Len(debounce) + Len(issued) < MaxChanges
  /\ \E query \in Queries \ {searchQuery} :
       /\ searchQuery' = query
       /\ debounce' = Append([k \in 1..Len(debounce) |->
                                IF debounce[k].age < DebounceTicks
                                  THEN [debounce[k] EXCEPT !.superseded = TRUE]
                                  ELSE debounce[k]],
                             [query |-> query, age |-> 0, superseded |-> FALSE])
  /\ UNCHANGED <<searchResults, isSearching, issued, NotHistory>>

(* 250 ms pass; a timer that is due fires before more time passes *)
Tick ==
  /\ debounce # <<>>
  /\ \A k \in 1..Len(debounce) : debounce[k].age < DebounceTicks
  /\ debounce' = [k \in 1..Len(debounce) |-> [debounce[k] EXCEPT !.age = @ + 1]]
  /\ UNCHANGED <<searchQuery, searchResults, isSearching, issued, NotHistory>>

(* the timer callback: handleSearch(query) up to its await *)
handleSearch ==
  /\ debounce # <<>>
  /\ Head(debounce).age = DebounceTicks
  /\ debounce' = Tail(debounce)
  /\ LET t == Head(debounce)
     IN  IF Trim(t.query) = <<>>
           THEN /\ searchResults' = NoResults
                /\ isSearching' = FALSE
                /\ UNCHANGED issued
           ELSE /\ isSearching' = TRUE
                /\ issued' = Append(issued, [query |-> Trim(t.query), state |-> "pending",
                                             superseded |-> t.superseded])
                /\ UNCHANGED searchResults
  /\ UNCHANGED <<searchQuery, NotHistory>>

(* apiService.searchIPs resolves: setSearchResults(response.data.results) *)
SearchResolves ==
  \E i \in 1..Len(issued) :
    /\ issued[i].state = "pending"
    /\ issued' = [issued EXCEPT ![i].state = "ok"]
    /\ searchResults' = ResultsOf(issued[i].query)
    /\ isSearching' = FALSE
    /\ UNCHANGED <<searchQuery, debounce, NotHistory>>

(* apiService.searchIPs rejects: setSearchResults([]) *)
SearchRejects ==
  \E i \in 1..Len(issued) :
    /\ issued[i].state = "pending"
    /\ issued' = [issued EXCEPT ![i].state = "failed"]
    /\ searchResults' = NoResults
    /\ isSearching' = FALSE
    /\ UNCHANGED <<searchQuery, debounce, NotHistory>>

NextHistory ==
  \/ handleSearchChange
  \/ Tick
  \/ handleSearch
  \/ SearchResolves
  \/ SearchRejects

SpecHistory == InitHistory /\ [][NextHistory]_vars

-----------------------------------------------------------------------------
(* The form of IPReverser.  formResult is the result state (null when not  *)
(* set), error the error state ("" for null), pending the request whose    *)
(* response the component waits for.  The input and both buttons are       *)
(* disabled while loading.                                                 *)

FormInputs ==
  {<<>>, <<" ">>, <<"1", "9", "2", ".", "1", "6", "8", ".", "1", ".", "1">>,
   <<" ", "1", ".", "2", ".", "3", ".", "4", " ">>, <<"1", ".", "2", ".", "3", ".", "4">>, <<":", ":", "1">>, <<"2", "0", "0", "1", ":", "d", "b", "8", ":", ":", "1">>, <<"9", "9", "9">>}

detectedIP == <<"2", "0", "3", ".", "0", ".", "1", "1", "3", ".", "7">>

InitForm ==
  /\ IdleCore
  /\ IdleCalls
  /\ IdleHttp
  /\ IdleServer
  /\ IdleProcess
  /\ IdleHistory
  /\ IdleForm
  /\ IdlePaging

NotForm == <<coreVars, callVars, httpVars, srvVars, shutVars, histVars, pageVars>>

(* onChange of the input: setIpAddress(e.target.value) *)
setIpAddress ==
  /\ ~loading
  /\ \E v \in FormInputs \ {ipAddress} : ipAddress' = v
  /\ UNCHANGED <<formResult, loading, error, pending, NotForm>>

(* handleSubmit up to its early return or to its await *)
handleSubmit ==
  /\ ~loading
  /\ IF Trim(ipAddress) = <<>>
       THEN /\ error' = "Please enter an IP address"
            /\ UNCHANGED <<formResult, loading, pending>>
       ELSE IF ~validateIP(Trim(ipAddress))
         THEN /\ error' = "Please enter a valid IP address"
              /\ UNCHANGED <<formResult, loading, pending>>
         ELSE /\ loading' = TRUE
              /\ error' = ""
              /\ formResult' = NoResult
              /\ pending' = "reverseIP"
  /\ UNCHANGED <<ipAddress, NotForm>>

(* handleGetMyIP up to its await *)
handleGetMyIP ==
  /\ ~loading
  /\ loading' = TRUE
  /\ error' = ""
  /\ formResult' = NoResult
  /\ ipAddress' = <<>>
  /\ pending' = "getMyIP"
  /\ UNCHANGED NotForm

(* the request resolves: setResult(response.data), and for My IP           *)
(* setIpAddress(response.data.originalIP); finally setLoading(false)       *)
RequestResolves ==
  /\ pending # "none"
  /\ IF pending = "reverseIP"
       THEN /\ formResult' = [set |-> TRUE, originalIP |-> Trim(ipAddress)]
            /\ UNCHANGED ipAddress
       ELSE /\ formResult' = [set |-> TRUE, originalIP |-> detectedIP]
            /\ ipAddress' = detectedIP
  /\ loading' = FALSE
  /\ pending' = "none"
  /\ UNCHANGED <<error, NotForm>>

(* the request rejects: setError(..); finally setLoading(false) *)
RequestRejects ==
  /\ pending # "none"
  /\ \E msg \in {"APIError message",
                 IF pending = "reverseIP" THEN "An unexpected error occurred"
                 ELSE "Failed to detect your IP address"} : error' = msg
  /\ loading' = FALSE
  /\ pending' = "none"
  /\ UNCHANGED <<ipAddress, formResult, NotForm>>

NextForm ==
  \/ setIpAddress
  \/ handleSubmit
  \/ handleGetMyIP
  \/ RequestResolves
  \/ RequestRejects

SpecForm == InitForm /\ [][NextForm]_vars

-----------------------------------------------------------------------------
(* Paging.  reqQuery holds the page, limit and q parameters of one request *)
(* (undefined when absent); handled is what its handler did: the status it *)
(* answered and, when it called the service, the page and limit it passed. *)

NaN == [nan |-> TRUE, n |-> 0]

Num(n) == [nan |-> FALSE, n |-> n]

DigitOf(c) == CHOOSE d \in 0..9 : <<"0", "1", "2", "3", "4", "5", "6", "7", "8", "9">>[d + 1] = c

(* the longest prefix of s made of decimal digits *)
DigitRun(s) ==
  LET k == CHOOSE k \in 0..Len(s) :
             /\ \A i \in 1..k : s[i] \in Digit
             /\ k = Len(s) \/ s[k + 1] \notin Digit
  IN  SubSeq(s, 1, k)

RECURSIVE NumberOf(_)
NumberOf(ds) ==
  IF ds = <<>> THEN 0
  ELSE 10 * NumberOf(SubSeq(ds, 1, Len(ds) - 1)) + DigitOf(ds[Len(ds)])

(* parseInt(v) on a decimal string: white space, a sign, then digits; NaN  *)
(* when there is no digit, and for undefined                               *)
ParseInt(v) ==
  IF ~v.def THEN NaN
  ELSE LET t == TrimStart(v.s)
           signed == t # <<>> /\ t[1] \in {"+", "-"}
           ds == DigitRun(IF signed THEN Tail(t) ELSE t)
       IN  IF ds = <<>> THEN NaN
           ELSE IF signed /\ t[1] = "-" THEN Num(0 - NumberOf(ds)) ELSE Num(NumberOf(ds))

(* parseInt(..) || dflt: NaN and 0 are falsy *)
OrDefault(p, dflt) == IF p.nan \/ p.n = 0 THEN dflt ELSE p.n

Min(a, b) == IF a < b THEN a ELSE b

(* IPController.getHistory up to the call of the service *)
getHistoryController(qs) ==
  LET page == OrDefault(ParseInt(qs.page), 1)
      limit == Min(OrDefault(ParseInt(qs.limit), 10), 100)
  IN  IF page < 1 \/ limit < 1
        THEN [NotHandled EXCEPT !.route = "history", !.status = 400,
                                !.code = "INVALID_PAGINATION"]
        ELSE [NotHandled EXCEPT !.route = "history", !.called = TRUE, !.page = page,
                                !.limit = limit]

(* IPController.searchIPs up to the call of the service *)
searchIPsController(qs) ==
  LET limit == Min(OrDefault(ParseInt(qs.limit), 10), 50)
  IN  IF ~Truthy(qs.q) \/ Trim(qs.q.s) = <<>>
        THEN [NotHandled EXCEPT !.route = "search", !.status = 400, !.code = "MISSING_QUERY"]
        ELSE [NotHandled EXCEPT !.route = "search", !.called = TRUE, !.limit = limit]

QueryValues ==
  {Undefined, Some(<<>>), Some(<<"a", "b", "c">>), Some(<<"0">>), Some(<<"-", "1">>), Some(<<"1">>), Some(<<"2">>),
   Some(<<"5", "0">>), Some(<<"5", "1">>), Some(<<"1", "0", "0">>), Some(<<"1", "0", "1">>), Some(<<"1", "0", "a", "b", "c">>), Some(<<" ", "7">>), Some(<<"-", "0">>)}

SearchTerms == {Undefined, Some(<<" ">>), Some(<<"1", "9", "2">>)}

InitPaging ==
  /\ IdleCore
  /\ IdleCalls
  /\ IdleHttp
  /\ IdleServer
  /\ IdleProcess
  /\ IdleHistory
  /\ IdleForm
  /\ reqQuery \in [page : QueryValues, limit : QueryValues, q : SearchTerms]
  /\ handled = NotHandled

NotPaging == <<coreVars, callVars, httpVars, srvVars, shutVars, histVars, formVars>>

GetHistory ==
  /\ handled.route = "none"
  /\ handled' = getHistoryController(reqQuery)
  /\ UNCHANGED <<reqQuery, NotPaging>>

SearchIPs ==
  /\ handled.route = "none"
  /\ handled' = searchIPsController(reqQuery)
  /\ UNCHANGED <<reqQuery, NotPaging>>

(* the service resolves: res.status(200).json(..) *)
ServiceResolves ==
  /\ handled.called
  /\ handled.status = 0
  /\ handled' = [handled EXCEPT !.status = 200]
  /\ UNCHANGED <<reqQuery, NotPaging>>

(* the service rejects: the catch block answers 500 *)
ServiceRejects ==
  /\ handled.called
  /\ handled.status = 0
  /\ handled' = [handled EXCEPT !.status = 500, !.code = "INTERNAL_ERROR"]
  /\ UNCHANGED <<reqQuery, NotPaging>>

NextPaging ==
  \/ GetHistory
  \/ SearchIPs
  \/ ServiceResolves
  \/ ServiceRejects

SpecPaging == InitPaging /\ [][NextPaging]_vars

-----------------------------------------------------------------------------
(* Vocabulary of the properties.                                           *)

InvalidAddress(r) ==
  /\ r.kind = "throw"
  /\ r.err \in {"Invalid IPv4 address", "Invalid IPv6 address", "Invalid IP address format"}
  /\ r.val = <<>>

digits == <<"0", "1", "2", "3", "4", "5", "6", "7", "8", "9">>

DigitValue(c) == (CHOOSE i \in 1..10 : digits[i] = c) - 1

RECURSIVE DecValue(_)
DecValue(f) ==
  IF f = <<>> THEN 0 ELSE 10 * DecValue(SubSeq(f, 1, Len(f) - 1)) + DigitValue(f[Len(f)])

AllIn(f, cs) == \A i \in 1..Len(f) : f[i] \in cs

(* 1 to 3 decimal digits with a value in 0..255 *)
IsOctetField(f) == Len(f) \in 1..3 /\ AllIn(f, Digit) /\ DecValue(f) <= 255

(* four octet fields separated by single dots and nothing else *)
IsDottedQuad(s) ==
  LET f == Split(s, <<".">>)
  IN  Len(f) = 4 /\ \A i \in 1..4 : IsOctetField(f[i])

(* 1 to 4 hexadecimal digits *)
IsHexGroup(g) == Len(g) \in 1..4 /\ AllIn(g, HexDigit)

(* exactly 8 groups of exactly 4 hexadecimal digits *)
IsFullyExpanded(s) ==
  LET g == Split(s, <<":">>)
  IN  Len(g) = 8 /\ \A i \in 1..8 : Len(g[i]) = 4 /\ AllIn(g[i], HexDigit)

Pad4(gs) == [i \in 1..Len(gs) |-> PadStart(gs[i], 4, "0")]

-----------------------------------------------------------------------------
(* C1: for every string accepted by isValidIPv4, reverseIPv4 and reverseIP *)
(* return the four fields d.c.b.a of a.b.c.d, each field character for     *)
(* character as in the input (leading zeros kept).                         *)
C1_ReverseIPv4Positional ==
  (op \in {"reverseIPv4", "reverseIP"} /\ isValidIPv4(ip)) =>
    LET f == Split(ip, <<".">>)
    IN  result = Str(f[4] \o <<".">> \o f[3] \o <<".">> \o f[2] \o <<".">> \o f[1])

C1_Witness ==
  /\ op = "reverseIP"
  /\ ip = <<"0", "1", ".", "0", "0", "2", ".", "3", ".", "4">>
  /\ result = Str(<<"4", ".", "3", ".", "0", "0", "2", ".", "0", "1">>)

(* C2: for every string accepted by isValidIPv6, the expansion made by     *)
(* reverseIPv6, and the reversed result, are 8 colon-separated groups of   *)
(* exactly 4 hexadecimal characters.                                       *)
C2_ExpansionIsEightGroupsOfFour ==
  (op = "reverseIPv6" /\ isValidIPv6(ip)) =>
    /\ expandedIP.kind = "ok" /\ IsFullyExpanded(expandedIP.val)
    /\ result.kind = "ok" /\ IsFullyExpanded(result.val)

(* C3: each reverse operation fails with InvalidAddress, returning no      *)
(* string, on every input its own validator rejects.                       *)
C3_ReverseRejectsInvalid ==
  /\ (op = "reverseIPv4" /\ ~isValidIPv4(ip)) => InvalidAddress(result)
  /\ (op = "reverseIPv6" /\ ~isValidIPv6(ip)) => InvalidAddress(result)
  /\ (op = "reverseIP" /\ ~isValidIP(ip)) => InvalidAddress(result)

C3_Witness ==
  /\ op = "reverseIPv4"
  /\ ip = <<"2", "0", "0", "1", ":", "d", "b", "8", ":", ":", "1">>
  /\ isValidIPv6(ip)
  /\ result = Throw("Invalid IPv4 address")

(* C4: isValidIPv6 and isValidIP reject every string in which "::" occurs  *)
(* more than once (occurrences counted without overlap).                   *)
C4_RejectsSecondDoubleColon ==
  (op \in {"isValidIPv6", "isValidIP"} /\ Len(Split(ip, <<":", ":">>)) > 2) =>
    result = Bool(FALSE)

ZoneStripped(s) == Split(s, <<"%">>)[1]

GroupWeight(gs, i) == IF i = Len(gs) /\ Includes(gs[i], <<".">>) THEN 2 ELSE 1

RECURSIVE GroupCount(_, _)
GroupCount(gs, i) == IF i > Len(gs) THEN 0 ELSE GroupWeight(gs, i) + GroupCount(gs, i + 1)

WellFormedGroups(gs) ==
  \A i \in 1..Len(gs) :
    IF i = Len(gs) /\ Includes(gs[i], <<".">>) THEN IsDottedQuad(gs[i]) ELSE IsHexGroup(gs[i])

HasLegalGroups(s) ==
  LET body == ZoneStripped(s)
      parts == Split(body, <<":", ":">>)
      explicit == SidePart(parts[1]) \o (IF Len(parts) > 1 THEN SidePart(parts[2]) ELSE <<>>)
  IN  /\ Len(parts) <= 2
      /\ WellFormedGroups(explicit)
      /\ IF Len(parts) = 1 THEN GroupCount(explicit, 1) = 8 ELSE GroupCount(explicit, 1) <= 7

(* C5: a string accepted by isValidIPv6 has, before any %zone suffix,      *)
(* exactly 8 groups when it has no "::" and at most 7 explicit groups when *)
(* it has one (a dotted IPv4 tail counting as two), and each explicit hex  *)
(* group is 1 to 4 hexadecimal digits.                                     *)
C5_RejectsWrongGroups ==
  (op = "isValidIPv6" /\ ~HasLegalGroups(ip)) => result = Bool(FALSE)

(* C6: isValidIPv4 is true exactly for four dot-separated fields of 1 to 3 *)
(* decimal digits with a value in 0..255, leading zeros allowed, and       *)
(* nothing before, between or after them.                                  *)
C6_IPv4ExactlyDottedQuad ==
  op = "isValidIPv4" => result = Bool(IsDottedQuad(ip))

C6_Witness ==
  /\ op = "isValidIPv4"
  /\ ip = <<"1", "9", "2", ".", "1", "6", "8", ".", "6", ".", "0", "0", "1">>
  /\ result = Bool(TRUE)

IsCompressedForm(s) ==
  LET parts == Split(s, <<":", ":">>)
  IN  /\ Len(parts) = 2
      /\ LET gs == SidePart(parts[1]) \o SidePart(parts[2])
         IN  Len(gs) <= 7 /\ \A i \in 1..Len(gs) : IsHexGroup(gs[i])

IsFullForm(s) ==
  LET gs == Split(s, <<":">>)
  IN  Len(gs) = 8 /\ \A i \in 1..8 : IsHexGroup(gs[i])

(* C7: isValidIPv6 accepts L hex groups, "::", R hex groups for every      *)
(* L, R >= 0 with L + R <= 7, and every 8 hex groups without "::".         *)
C7_AcceptsEveryPlacement ==
  (op = "isValidIPv6" /\ (IsCompressedForm(ip) \/ IsFullForm(ip))) => result = Bool(TRUE)

C7_Witness ==
  /\ op = "isValidIPv6"
  /\ ip = <<":", ":", "2", "0", "0", "1", ":", "d", "b", "8", ":", "0", ":", "8", "a", "2", "e", ":", "3", "7", "0", ":", "7", "3", "3", "4", ":", "A", "b", "C", "d">>
  /\ IsCompressedForm(ip)
  /\ result = Bool(TRUE)

NonEmpty(gs) == SelectSeq(gs, LAMBDA g : g # <<>>)

ExpectedExpansion(s) ==
  IF ~Includes(s, <<":", ":">>) THEN Join(Pad4(Split(s, <<":">>)), <<":">>)
  ELSE LET at == IndexOf(s, <<":", ":">>, 1)
           left == NonEmpty(Split(SubSeq(s, 1, at - 1), <<":">>))
           right == NonEmpty(Split(SubSeq(s, at + 2, Len(s)), <<":">>))
           zeros == [i \in 1..(8 - Len(left) - Len(right)) |-> <<"0", "0", "0", "0">>]
       IN  Join(Pad4(left) \o zeros \o Pad4(right), <<":">>)

(* C8: for every string accepted by isValidIPv6 the expansion is the       *)
(* explicit groups before the "::", padded to 4, then 8 - L - R groups     *)
(* "0000", then the explicit groups after it, padded to 4; without "::" it *)
(* is all the groups padded to 4.  No group is dropped or reordered.       *)
C8_ExpansionKeepsGroups ==
  (op = "reverseIPv6" /\ isValidIPv6(ip)) => expandedIP = Str(ExpectedExpansion(ip))

(* C9: for every string accepted by isValidIPv6 that contains "::" the     *)
(* count 8 - left - right is >= 0, and reverseIPv6 and reverseIP return a  *)
(* string for every input their validator accepts.                         *)
C9_MissingGroupsNonNegative ==
  /\ (op = "reverseIPv6" /\ isValidIPv6(ip)) =>
       /\ result.kind = "ok"
       /\ Includes(ip, <<":", ":">>) => missingGroups(ip) >= 0
  /\ (op = "reverseIP" /\ isValidIP(ip)) => result.kind = "ok"

C9_Witness ==
  /\ op = "reverseIPv6"
  /\ ip = <<"2", "0", "0", "1", ":", "d", "b", "8", ":", "0", ":", "8", "a", "2", "e", ":", "3", "7", "0", ":", "7", "3", "3", "4", ":", "A", "b", "C", "d", ":", ":">>
  /\ missingGroups(ip) = 1
  /\ result.kind = "ok"

(* C10: isValidIP is isValidIPv4 or isValidIPv6, no string is accepted by  *)
(* both, and reverseIP gives the result of the reverse operation of the    *)
(* family whose validator accepts the input.                               *)
C10_DispatchByValidators ==
  /\ op = "isValidIP" =>
       /\ result = Bool(isValidIPv4(ip) \/ isValidIPv6(ip))
       /\ ~(isValidIPv4(ip) /\ isValidIPv6(ip))
  /\ (op = "reverseIP" /\ isValidIPv4(ip)) => result = reverseIPv4(ip)
  /\ (op = "reverseIP" /\ isValidIPv6(ip)) => result = reverseIPv6(ip)

C10_Witness ==
  /\ op = "reverseIP"
  /\ ip = <<":", ":", "f", "f", "f", "f", ":", "1", ".", "2", ".", "3", ".", "4">>
  /\ isValidIPv6(ip)
  /\ result = reverseIPv6(ip)
  /\ result.kind = "ok"

(* C11: for every string of 8 groups of 4 hex digits, reverseIP returns    *)
(* again such a string, accepted by isValidIPv6, and a second reverseIP    *)
(* returns the original string.                                            *)
C11_InvolutionOnExpanded ==
  /\ (op \in {"reverseIP", "reverseIP twice"} /\ IsFullyExpanded(ip)) =>
       /\ result.kind = "ok"
       /\ IsFullyExpanded(result.val)
       /\ isValidIPv6(result.val)
  /\ (op = "reverseIP twice" /\ IsFullyExpanded(ip)) => twice = Str(ip)

C11_Witness ==
  /\ op = "reverseIP twice"
  /\ ip = <<"2", "0", "0", "1", ":", "0", "d", "b", "8", ":", "8", "5", "a", "3", ":", "0", "0", "0", "0", ":", "0", "0", "0", "0", ":", "8", "a", "2", "e", ":", "0", "3", "7", "0", ":", "7", "3", "3", "4">>
  /\ result = Str(<<"7", "3", "3", "4", ":", "0", "3", "7", "0", ":", "8", "a", "2", "e", ":", "0", "0", "0", "0", ":", "0", "0", "0", "0", ":", "8", "5", "a", "3", ":", "0", "d", "b", "8", ":", "2", "0", "0", "1">>)
  /\ twice = Str(ip)

HasLeadingZeroOctet(s) ==
  \E i \in 1..Len(Split(s, <<".">>)) :
    LET f == Split(s, <<".">>)[i] IN Len(f) > 1 /\ f[1] = "0"

(* C12 as stated, on its own example: reverseIP applied twice to the valid *)
(* IPv4 string "01.002.3.4", whose octets have leading zeros, returns a    *)
(* string that differs from it.                                            *)
C12_ExampleDoesNotRoundTrip ==
  (op = "reverseIP twice" /\ ip = <<"0", "1", ".", "0", "0", "2", ".", "3", ".", "4">> /\ HasLeadingZeroOctet(ip)) =>
    twice # Str(ip)

(* C12 as amended: reverseIP applied twice returns the original string for *)
(* every valid IPv4 string, octets with leading zeros included.            *)
C12_IPv4RoundTrip ==
  /\ (op \in {"reverseIP", "reverseIP twice"} /\ isValidIPv4(ip)) => result.kind = "ok"
  /\ (op = "reverseIP twice" /\ isValidIPv4(ip)) => twice = Str(ip)

C12_Witness ==
  /\ op = "reverseIP twice"
  /\ ip = <<"0", "1", ".", "0", "0", "2", ".", "3", ".", "4">>
  /\ HasLeadingZeroOctet(ip)
  /\ twice = Str(ip)

(* hex groups and colons only, and not already 8 groups of 4 digits *)
IsShortHexForm(s) ==
  /\ isValidIPv6(s)
  /\ AllIn(s, HexDigit \cup {":"})
  /\ ~IsFullyExpanded(s)

(* C13: for every valid IPv6 string of hex groups that has a "::" or a     *)
(* group shorter than 4 digits, reverseIP applied twice succeeds and       *)
(* returns expandIPv6 of the string, which is not the string itself.       *)
C13_RoundTripGivesExpansion ==
  /\ (op \in {"reverseIP", "reverseIP twice"} /\ IsShortHexForm(ip)) => result.kind = "ok"
  /\ (op = "reverseIP twice" /\ IsShortHexForm(ip)) =>
       /\ twice.kind = "ok"
       /\ twice = expandIPv6(ip)
       /\ twice.val # ip

C13_Witness ==
  /\ op = "reverseIP twice"
  /\ ip = <<"2", "0", "0", "1", ":", "d", "b", "8", ":", ":", "1">>
  /\ twice = Str(<<"2", "0", "0", "1", ":", "0", "d", "b", "8", ":", "0", "0", "0", "0", ":", "0", "0", "0", "0", ":", "0", "0", "0", "0", ":", "0", "0", "0", "0", ":", "0", "0", "0", "0", ":", "0", "0", "0", "1">>)

(* the text before the first comma, without surrounding white space *)
FirstForwarded(s) ==
  LET c == IndexOf(s, <<",">>, 1)
  IN  Trim(IF c = 0 THEN s ELSE SubSeq(s, 1, c - 1))

(* C14 as stated: a non-empty forwarded value decides the result; else a   *)
(* real-ip value that is present is returned as given; the connection      *)
(* address counts only when both headers are absent.                       *)
C14_StrictPriority ==
  op = "extractClientIP" =>
    /\ Truthy(req.forwarded) => result = Str(FirstForwarded(req.forwarded.s))
    /\ (~Truthy(req.forwarded) /\ req.realIP.def) => result = Str(req.realIP.s)

(* C14 as amended: a non-empty forwarded value decides the result; else a  *)
(* real-ip value that is present and non-empty is returned as given; the   *)
(* connection address counts only when neither header has a non-empty      *)
(* value.                                                                  *)
C14_PriorityOfNonEmpty ==
  op = "extractClientIP" =>
    /\ Truthy(req.forwarded) => result = Str(FirstForwarded(req.forwarded.s))
    /\ (~Truthy(req.forwarded) /\ Truthy(req.realIP)) => result = Str(req.realIP.s)
    /\ (Truthy(req.forwarded) \/ Truthy(req.realIP)) =>
         result = extractClientIP([req EXCEPT !.connAddr = Undefined, !.sockAddr = Undefined])

C14_Witness ==
  /\ op = "extractClientIP"
  /\ req.forwarded = Some(<<"1", "0", ".", "0", ".", "2", "0", ".", "2", "1", ",", " ", "5", ".", "5", ".", "5", ".", "5">>)
  /\ req.realIP = Some(<<"2", "0", "3", ".", "0", ".", "1", "1", "3", ".", "7">>)
  /\ req.connAddr = Some(<<":", ":", "1">>)
  /\ result = Str(<<"1", "0", ".", "0", ".", "2", "0", ".", "2", "1">>)

(* C15: with no value from either header, the result is the connection     *)
(* address without its first 7 characters when these are "::ffff:", the    *)
(* address itself otherwise, and "unknown" exactly when there is no        *)
(* address.                                                                *)
C15_RawAddressRule ==
  (op = "extractClientIP" /\ ~Truthy(req.forwarded) /\ ~Truthy(req.realIP)) =>
    LET raw == IF Truthy(req.connAddr) THEN req.connAddr ELSE req.sockAddr
    IN  /\ Truthy(raw) =>
             result = Str(IF Len(raw.s) >= 7 /\ SubSeq(raw.s, 1, 7) = <<":", ":", "f", "f", "f", "f", ":">>
                            THEN SubSeq(raw.s, 8, Len(raw.s)) ELSE raw.s)
        /\ result = Str(<<"u", "n", "k", "n", "o", "w", "n">>) <=> ~Truthy(raw)

C15_Witness ==
  /\ op = "extractClientIP"
  /\ req.forwarded = Undefined
  /\ req.realIP = Undefined
  /\ req.connAddr = Some(<<":", ":", "f", "f", "f", "f", ":", "z", "z", "z", "z">>)
  /\ result = Str(<<"z", "z", "z", "z">>)

(* C16: normalizeIP removes the first 7 characters of a string that starts *)
(* with "::ffff:", once, returns any other string unchanged, and agrees    *)
(* with what extractClientIP does to a connection address.                 *)
C16_NormalizeStripsOnce ==
  op = "normalizeIP" =>
    /\ result = Str(IF Len(ip) >= 7 /\ SubSeq(ip, 1, 7) = <<":", ":", "f", "f", "f", "f", ":">>
                      THEN SubSeq(ip, 8, Len(ip)) ELSE ip)
    /\ ip # <<>> => result = extractClientIP([emptyRequest EXCEPT !.connAddr = Some(ip)])

C16_Witness ==
  /\ op = "normalizeIP"
  /\ ip = <<":", ":", "f", "f", "f", "f", ":", ":", ":", "f", "f", "f", "f", ":", "1", ".", "2", ".", "3", ".", "4">>
  /\ result = Str(<<":", ":", "f", "f", "f", "f", ":", "1", ".", "2", ".", "3", ".", "4">>)

(* C17: the validators return a boolean, normalizeIP and extractClientIP   *)
(* return a string, for every input; only the reverse operations throw.    *)
C17_OnlyReverseThrows ==
  /\ op \in {"isValidIPv4", "isValidIPv6", "isValidIP"} => result.kind = "bool"
  /\ op \in {"normalizeIP", "extractClientIP"} => result.kind = "ok"
  /\ result.kind = "throw" => op \in {"reverseIPv4", "reverseIPv6", "reverseIP"}
  /\ twice.kind = "throw" => op = "reverseIP twice"

C17_Witness ==
  /\ op = "extractClientIP"
  /\ req = emptyRequest
  /\ result = Str(<<"u", "n", "k", "n", "o", "w", "n">>)

(* what a call returns when it is the only call ever made *)
Alone(c) ==
  CASE c.op = "isValidIP" -> Bool(isValidIP(c.ip))
    [] c.op = "reverseIP" -> reverseIP(c.ip)
    [] c.op = "extractClientIP" -> extractClientIP(c.req)
    [] c.op = "normalizeIP" -> normalizeIP(c.ip)
    [] OTHER -> None

(* C18: in every interleaving of the callers' calls of isValidIP,          *)
(* reverseIP, extractClientIP and normalizeIP, each call returns what it   *)
(* returns when run alone on its arguments, and no RegExp object is left   *)
(* with a match position.                                                  *)
C18_CallsKeepNoState ==
  /\ \A c \in Callers : calls[c].ret = Alone(calls[c])
  /\ lastIndex = [v4 |-> 0, v6 |-> 0]

(* two callers have validated and reversed the same valid address *)
C18_Witness ==
  /\ calls[1].op = "isValidIP" /\ calls[1].ret = Bool(TRUE)
  /\ calls[2].op = "reverseIP" /\ calls[2].ip = calls[1].ip
  /\ calls[2].ret = Str(<<"4", ".", "3", ".", "2", ".", "1">>)


(* C19: every stored record has an originalIP that isValidIP accepts and   *)
(* the reversedIP that reverseIP returns for it, and every value handed to *)
(* reverseAndStore is accepted by isValidIP.                               *)
C19_ValidatedBeforeStorage ==
  /\ \A k \in 1..Len(store) :
       /\ isValidIP(store[k].originalIP)
       /\ Str(store[k].reversedIP) = reverseIP(store[k].originalIP)
  /\ \A a \in svcArgs : isValidIP(StringOf(a))

(* both endpoints have stored a record *)
C19_Witness ==
  /\ Len(store) = 2
  /\ requests[store[1].by].route # requests[store[2].by].route

RecordsBy(i) == {k \in 1..Len(store) : store[k].by = i}

IsPost(i) == requests[i].route = "POST /api/ip/reverse"

(* the body has no ip, or an empty one *)
MissingOrEmpty(v) == v = JsUndefined \/ v = JsString(<<>>)

C21_ClosedUnderReversal ==
  /\ (op = "reverseIP" /\ isValidIP(ip)) =>
       /\ result.kind = "ok"
       /\ IF isValidIPv4(ip) THEN isValidIPv4(result.val) ELSE isValidIPv6(result.val)
  /\ op = "reverseIP twice" => ~InvalidAddress(twice)


(* C22: extractClientIP never returns the empty string: its result is a    *)
(* non-empty string for every request.                                     *)
C22_NeverEmpty ==
  op = "extractClientIP" => (result.kind = "ok" /\ result.val # <<>>)


(* C23: every record stored for a GET /api/ip/my-ip request has originalIP *)
(* equal to requestIP, both being the address extractClientIP detects for  *)
(* that request.                                                           *)
C23_MyIPStoresDetectedAddress ==
  \A k \in 1..Len(store) :
    LET q == requests[store[k].by]
    IN  q.route = "GET /api/ip/my-ip" =>
          /\ store[k].originalIP = extractClientIP(q.hdr).val
          /\ store[k].requestIP = store[k].originalIP


(* C24: at most one response is written per request, the timeout sends 408 *)
(* only if no response has started, and once a response has been sent      *)
(* nothing attempts to send another one.                                   *)
C24_OneResponsePerRequest ==
  \A i \in 1..Len(conns) :
    /\ conns[i].written <= 1
    /\ conns[i].status = 408 => conns[i].timer = "fired"
    /\ conns[i].attempts = 0


(* C25: once a signal has arrived the process eventually exits; it exits   *)
(* with code 0 only with the server closed and the database disconnected,  *)
(* a close error, a disconnect error or the force timer gives code 1, and  *)
(* the database is not disconnected while the server has not closed.       *)
C25_ShutdownExits ==
  /\ [](exitCode = 0 => (server = "closed" /\ db = "disconnected" /\ cause = "completed"))
  /\ [](cause \in {"close error", "disconnect error", "force timer"} => exitCode = 1)
  /\ [](db # "connected" => server = "closed")
  /\ (signals # <<>>) ~> (exitCode # -1)

(* one signal, the server drained and closed, the database disconnected *)
C25_Witness ==
  /\ Len(signals) = 1
  /\ ended > 0
  /\ exitCode = 0
  /\ server = "closed"
  /\ db = "disconnected"


(* C26: no search request is issued for a change of the search box that    *)
(* was followed by another change less than 500 ms later.                  *)
C26_Debounced ==
  \A i \in 1..Len(issued) : ~issued[i].superseded

(* every timer has fired and every search request has completed *)
Quiescent ==
  /\ debounce = <<>>
  /\ \A i \in 1..Len(issued) : issued[i].state # "pending"

(* displayData: the rows the table shows *)
displayData ==
  IF Trim(searchQuery) # <<>> THEN searchResults ELSE [of |-> "history", query |-> <<>>]

(* C27: once every search request has completed, the rows displayed for a  *)
(* non-empty query are the results of that query, or none when its search  *)
(* failed, and an empty query displays no search results.                  *)
C27_LatestQueryWins ==
  Quiescent =>
    IF Trim(searchQuery) # <<>>
      THEN displayData \in {ResultsOf(Trim(searchQuery)), NoResults}
      ELSE displayData.of # "query"


(* C28: the error message and the result are never both set, and loading   *)
(* is false whenever no request is in flight.                              *)
C28_ErrorExcludesResult ==
  /\ ~(error # "" /\ formResult.set)
  /\ pending = "none" => ~loading


(* C29: validateIP of the form accepts exactly the strings that isValidIP  *)
(* of the backend accepts.                                                 *)
C29_SameValidation ==
  op = "validateIP" => result = Bool(isValidIP(ip))


(* the parameter is a number that is zero or negative *)
NonPositive(v) == ~ParseInt(v).nan /\ ParseInt(v).n <= 0

(* C30: getHistory calls the service only with page >= 1 and limit in      *)
(* 1..100, searchIPs only with limit in 1..50, and a request with a        *)
(* non-positive page or limit is answered 400 without calling the service. *)
C30_PagingWithinBounds ==
  /\ (handled.route = "history" /\ handled.called) =>
       (handled.page >= 1 /\ handled.limit \in 1..100)
  /\ (handled.route = "search" /\ handled.called) => handled.limit \in 1..50
  /\ (handled.route = "history" /\ (NonPositive(reqQuery.page) \/ NonPositive(reqQuery.limit))) =>
       (handled.status = 400 /\ ~handled.called)
  /\ (handled.route = "search" /\ NonPositive(reqQuery.limit)) =>
       (handled.status = 400 /\ ~handled.called)


====
